---- MODULE Spec2Model ----
(***************************************************************************)
(* ImageClassifierTransformer (src/src/ImageClassifier/transformer.js):    *)
(* the wrapper's fields, its three public methods and the classification   *)
(* loop, cut into the steps the JavaScript event loop runs atomically.     *)
(***************************************************************************)
EXTENDS Integers, Sequences, FiniteSets, TLC

\* ------------------------------------------------------------------ bounds
MaxCalls == 3      \* classify calls issued by the user, a loop or a timer
MaxSpin == 1       \* more calls a .then reaction may make after a dropped one
MaxLoads == 3      \* calls of loadTransformersFromCDN
MaxTime == 2       \* values Date.now() takes

\* ------------------------------------------------------ program constants
DefaultTopK == 3   \* options.topK || 3

\* ------------------------------------------------------------ JS values
\* A JavaScript value: kind is its runtime type, n a number's value, s a
\* string's text, the name of an image element or the behaviour of a function.
UndefV == [kind |-> "undefined", n |-> 0, s |-> ""]
NumV(n) == [kind |-> "number", n |-> n, s |-> ""]
StrV(s) == [kind |-> "string", n |-> 0, s |-> s]
ImgV(s) == [kind |-> "image", n |-> 0, s |-> s]
FnV(s) == [kind |-> "function", n |-> 0, s |-> s]
CanvasV(n) == [kind |-> "canvas", n |-> n, s |-> ""]

\* JavaScript truthiness, for the values the constructor tests with ||.
Truthy(v) ==
  CASE v.kind = "undefined" -> FALSE
    [] v.kind = "number" -> v.n # 0
    [] v.kind = "string" -> v.s # ""
    [] OTHER -> TRUE

\* What the user passes to classify: the call shapes classify(image, cb),
\* classify(image, number, cb), classify(cb) and classify(image, number), with
\* a static image or a video, a number override of 0 or 2, and a callback of
\* each behaviour ("reenter" calls classify and classifyStart from inside).
UserArgs ==
  { <<ImgV("img"), FnV("noop")>>,
    <<ImgV("video"), NumV(2), FnV("stop")>>,
    <<FnV("noop")>>,
    <<ImgV("video"), NumV(0)>>,
    <<ImgV("img"), FnV("throw")>>,
    <<ImgV("img"), NumV(0), FnV("reenter")>> }

\* What the user passes to classifyStart: a loop over a video, a loop over a
\* static image whose callback stops it, and a loop given no image.
StartArgs ==
  { <<ImgV("video"), FnV("noop")>>,
    <<ImgV("img"), NumV(2), FnV("stop")>>,
    <<FnV("noop")>> }

\* The call a callback makes when it re-enters the wrapper.
InnerArgs == <<ImgV("img"), FnV("noop")>>

\* The constructor calls: options.topK, options.device and the onReady
\* callback (what it does with the wrapper it is handed).
Constructions ==
  { [topK |-> UndefV, device |-> UndefV, callback |-> UndefV],
    [topK |-> NumV(0), device |-> UndefV, callback |-> FnV("noop")],
    [topK |-> NumV(2), device |-> UndefV, callback |-> FnV("classify")],
    [topK |-> UndefV, device |-> UndefV, callback |-> FnV("start")],
    [topK |-> UndefV, device |-> StrV("webgpu"), callback |-> UndefV] }

\* What the inference callable can answer.
EntryA == [label |-> "cat", score |-> 1]
EntryB == [label |-> "dog", score |-> 0]
Outputs == {<<EntryA, EntryB>>}

VARIABLES
  classifier,     \* this.classifier: FALSE is null, TRUE the resolved callable
  needToStop,     \* this.needToStop
  isClassifying,  \* this.isClassifying
  topK,           \* this.topK
  device,         \* this.device
  ready,          \* this.ready: "pending", "resolved" or "rejected"
  options,        \* the constructor's arguments
  onReadyCalls,   \* the invocations of the constructor's callback
  calls,          \* every classify call made so far, with what became of it
  loops,          \* every loop an accepted classifyStart created
  stopMark,       \* history: the call in flight at the last classifyStop (0: none)
  loadTransformers, \* window.loadTransformers is defined
  head,           \* the loader script elements appended to document.head
  globals,        \* window[promiseId + "_resolve"], "_reject": <<promiseId, load>>
  loads,          \* every loadTransformersFromCDN call made so far
  now             \* Date.now()

wrapperVars == <<classifier, needToStop, isClassifying, topK, device, ready, options,
                 onReadyCalls, calls, loops, stopMark>>

loaderVars == <<loadTransformers, head, globals, loads, now>>

vars == <<wrapperVars, loaderVars>>

\* The wrapper as one value, for the operators that model its methods.
W == [classifier |-> classifier, needToStop |-> needToStop,
      isClassifying |-> isClassifying, topK |-> topK, device |-> device,
      onReadyCalls |-> onReadyCalls, calls |-> calls, loops |-> loops,
      stopMark |-> stopMark, ready |-> ready]

Set(w) ==
  /\ classifier' = w.classifier
  /\ needToStop' = w.needToStop
  /\ isClassifying' = w.isClassifying
  /\ topK' = w.topK
  /\ device' = w.device
  /\ onReadyCalls' = w.onReadyCalls
  /\ calls' = w.calls
  /\ loops' = w.loops
  /\ stopMark' = w.stopMark

InFlightIn(cs) == {i \in 1..Len(cs) : cs[i].state = "inflight"}

\* ------------------------------------------------------------ collaborators
\* handleArguments: the argument of each kind, wherever it stands.
PickKind(args, kind) ==
  LET hits == {i \in 1..Len(args) : args[i].kind = kind}
  IN IF hits = {} THEN UndefV
     ELSE args[CHOOSE i \in hits : \A j \in hits : j <= i]

handleArguments(args) ==
  [image |-> PickKind(args, "image"),
   number |-> PickKind(args, "number"),
   callback |-> PickKind(args, "function")]

\* .require("image", message): TRUE when the field is there, else it throws.
require(h) == h.image.kind # "undefined"

isVideo(image) == image.kind = "image" /\ image.s = "video"

\* drawToCanvas: a new canvas holding the video's frame at call id.
drawToCanvas(image, id) == CanvasV(id)

\* ------------------------------------------------------------ constructor
\* chooiseDevice(): webgpu when navigator.gpu exists, else wasm.
chooiseDevice(gpu) == IF gpu THEN "webgpu" ELSE "wasm"

\* this.topK = options.topK || 3;
initTopK(opts) == IF Truthy(opts.topK) THEN opts.topK.n ELSE DefaultTopK

\* this.device = options.device || chooiseDevice();
initDevice(opts, gpu) == IF Truthy(opts.device) THEN opts.device.s ELSE chooiseDevice(gpu)

\* ------------------------------------------------------------ call records
\* One classify call: who made it, the state it found (the busy flag, the
\* callable, the readiness promise, the calls in flight), its locals (image, number, callback once
\* the arguments are parsed; input and top_k as handed to the inference
\* callable) and what became of it.  state is "undefined"
\* (resolved with undefined), "inflight" (awaiting the inference callable),
\* "delivering" (the inference call resolved, the callback is running),
\* "resolved" (resolved with value) or "rejected" (with error).
NewCall(w, origin, lp) ==
  [origin |-> origin, loop |-> lp,
   busyBefore |-> w.isClassifying, resolvedBefore |-> w.classifier,
   readyBefore |-> w.ready,
   inflightBefore |-> Cardinality(InFlightIn(w.calls)),
   image |-> UndefV, number |-> UndefV, callback |-> UndefV,
   state |-> "undefined", error |-> "",
   input |-> UndefV, top_k |-> -1, inferCalls |-> 0, out |-> <<>>,
   cbCount |-> 0, delivered |-> <<>>, value |-> <<>>]

NoImageError == "No input image provided. If you want to classify a video, use classifyStart."

\* A promise returned by classify settles: the loop that chained .then on it
\* gets its reaction queued (resolved) or is left without one (rejected).
Settle(w, id, state) ==
  LET lp == w.calls[id].loop
      w1 == [w EXCEPT !.calls[id].state = state]
  IN IF lp = 0 THEN w1
     ELSE [w1 EXCEPT !.loops[lp].pc = IF state = "rejected" THEN "broken" ELSE "then"]

\* ------------------------------------------------------------ classify
\* The guard without the busy test.
guardNoBusy(w) == ~w.classifier

\* The guard without the readiness test.
guardNoReady(w) == w.isClassifying

\* if (this.isClassifying || !this.classifier) return;
guard(w) == w.isClassifying \/ ~w.classifier

\* The arguments parsed without requiring the image.
parseNoRequire(args) ==
  LET h == handleArguments(args)
  IN [image |-> h.image, number |-> h.number, callback |-> h.callback, thrown |-> FALSE]

\* const { image, number, callback } = handleArguments(...).require("image", ...)
parseArguments(args) ==
  LET h == handleArguments(args)
  IN [image |-> h.image, number |-> h.number, callback |-> h.callback,
      thrown |-> ~require(h)]

\* The video handed on as it is.
convertInputNoSnapshot(image, id) == image

\* const input = isVideo(image) ? drawToCanvas(image) : image;
convertInput(image, id) == IF isVideo(image) THEN drawToCanvas(image, id) ELSE image

\* const topK = number !== undefined ? number : this.topK;
effectiveTopK(number, w) == IF number.kind # "undefined" THEN number.n ELSE w.topK

\* results.map((result) => ({ label: result.label, confidence: result.score }))
RECURSIVE normalize(_)
normalize(results) ==
  IF results = <<>> THEN <<>>
  ELSE <<[label |-> Head(results).label, confidence |-> Head(results).score]>>
       \o normalize(Tail(results))

\* classify up to its await: the guard, the busy flag, the arguments, the
\* conversion and the call of the inference callable.
classify(w, args, origin, lp) ==
  LET id == Len(w.calls) + 1
      c0 == NewCall(w, origin, lp)
  IN IF guard(w)
     THEN [w EXCEPT !.calls = Append(@, c0)]
     ELSE LET w1 == [w EXCEPT !.isClassifying = TRUE]
              a == parseArguments(args)
              c1 == [c0 EXCEPT !.image = a.image, !.number = a.number,
                               !.callback = a.callback]
          IN IF a.thrown
             THEN [w1 EXCEPT !.calls = Append(@,
                     [c1 EXCEPT !.state = "rejected", !.error = NoImageError])]
             ELSE [w1 EXCEPT !.calls = Append(@,
                     [c1 EXCEPT !.state = "inflight",
                                !.input = convertInput(a.image, id),
                                !.top_k = effectiveTopK(a.number, w1),
                                !.inferCalls = 1])]

\* ------------------------------------------------------------ the loop
\* The promise classify returned to next, with .then chained on it.
Chain(w, lp, id) ==
  LET w1 == [w EXCEPT !.loops[lp].pc = "await", !.loops[lp].call = id]
  IN IF w.calls[id].state = "inflight" THEN w1
     ELSE Settle(w1, id, w.calls[id].state)

\* next testing the stop flag after it has called classify.
nextChecksLate(w, lp) ==
  LET w1 == classify(w, w.loops[lp].args, "loop", lp)
  IN IF w.needToStop
     THEN [w1 EXCEPT !.loops[lp].pc = "halted", !.loops[lp].call = Len(w.calls) + 1]
     ELSE Chain(w1, lp, Len(w.calls) + 1)

\* next without its test of the stop flag.
nextIgnoringStop(w, lp) ==
  Chain(classify(w, w.loops[lp].args, "loop", lp), lp, Len(w.calls) + 1)

\* const next = () => { if (this.needToStop) return; this.classify(...).then(...) }
next(w, lp) ==
  IF w.needToStop
  THEN [w EXCEPT !.loops[lp].pc = "halted"]
  ELSE Chain(classify(w, w.loops[lp].args, "loop", lp), lp, Len(w.calls) + 1)

\* classifyStart's guard without the readiness test.
startGuardNoReady(w) == w.isClassifying

\* classifyStart's guard without the busy test.
startGuardNoBusy(w) == ~w.classifier

\* if (this.isClassifying || !this.classifier) return;
startGuard(w) == w.isClassifying \/ ~w.classifier

classifyStart(w, args) ==
  IF startGuard(w) THEN w
  ELSE LET lp == Len(w.loops) + 1
           w1 == [w EXCEPT !.needToStop = FALSE,
                           !.loops = Append(@, [args |-> args, pc |-> "new", call |-> 0])]
       IN next(w1, lp)

\* this.needToStop = true;
classifyStop(w) ==
  [w EXCEPT !.needToStop = TRUE,
            !.stopMark = IF InFlightIn(w.calls) = {} THEN 0
                         ELSE CHOOSE i \in InFlightIn(w.calls) :
                                \A j \in InFlightIn(w.calls) : j <= i]

\* The .then reaction calling next at once on every backend.
thenReactionNoTimer(w, lp) == next(w, lp)

\* .then(() => { if (this.device === "webgpu") next(); else setTimeout(next, 1000); })
thenReaction(w, lp) ==
  IF w.device = "webgpu" THEN next(w, lp)
  ELSE [w EXCEPT !.loops[lp].pc = "timer"]

\* ------------------------------------------------------------ completion
\* What a user's callback does when it runs.
RunCallback(w, fn) ==
  CASE fn = "stop" -> classifyStop(w)
    [] fn = "reenter" -> classifyStart(classify(w, InnerArgs, "callback", 0), InnerArgs)
    [] OTHER -> w

\* classify after its await with the busy flag cleared before the callback runs.
resumeClearsFirst(w, id, results) ==
  LET normalized == normalize(results)
      cb == w.calls[id].callback
      w0 == [w EXCEPT !.calls[id].out = results, !.calls[id].state = "delivering",
                      !.isClassifying = FALSE]
  IN IF cb.kind # "function"
     THEN Settle([w0 EXCEPT !.calls[id].error = "TypeError"], id, "rejected")
     ELSE LET w1 == RunCallback([w0 EXCEPT !.calls[id].cbCount = @ + 1,
                                          !.calls[id].delivered = normalized], cb.s)
          IN IF cb.s = "throw"
             THEN Settle([w1 EXCEPT !.calls[id].error = "CallbackError"], id, "rejected")
             ELSE Settle([w1 EXCEPT !.calls[id].value = normalized], id, "resolved")

\* classify after its await, the inference call having resolved: normalize,
\* callback(normalized), this.isClassifying = false, return normalized.
resume(w, id, results) ==
  LET normalized == normalize(results)
      cb == w.calls[id].callback
      w0 == [w EXCEPT !.calls[id].out = results, !.calls[id].state = "delivering"]
  IN IF cb.kind # "function"
     THEN Settle([w0 EXCEPT !.calls[id].error = "TypeError"], id, "rejected")
     ELSE LET w1 == RunCallback([w0 EXCEPT !.calls[id].cbCount = @ + 1,
                                          !.calls[id].delivered = normalized], cb.s)
          IN IF cb.s = "throw"
             THEN Settle([w1 EXCEPT !.calls[id].error = "CallbackError"], id, "rejected")
             ELSE Settle([w1 EXCEPT !.isClassifying = FALSE,
                                    !.calls[id].value = normalized], id, "resolved")

\* A rejected inference call answered by calling the callable once more.
failRetries(w, id) == [w EXCEPT !.calls[id].inferCalls = @ + 1]

\* classify after its await, the inference call having rejected: the await throws.
fail(w, id) ==
  Settle([w EXCEPT !.calls[id].error = "InferenceError"], id, "rejected")

\* What the constructor's callback does with the wrapper it is handed.
RunOnReady(w, fn) ==
  CASE fn = "classify" -> classify(w, InnerArgs, "onReady", 0)
    [] fn = "start" -> classifyStart(w, InnerArgs)
    [] OTHER -> w

\* The onReady callback run before the callable is stored.
onResolvedCallbackFirst(w, cb) ==
  LET w1 == IF cb.kind # "function" THEN w
            ELSE RunOnReady([w EXCEPT !.onReadyCalls =
                                Append(@, [arg |-> "this", classifier |-> w.classifier])], cb.s)
  IN [w1 EXCEPT !.classifier = TRUE]

\* .then((classifier) => { this.classifier = classifier; callback?.(this); return this; })
onResolved(w, cb) ==
  LET w1 == [w EXCEPT !.classifier = TRUE]
  IN IF cb.kind # "function" THEN w1
     ELSE RunOnReady([w1 EXCEPT !.onReadyCalls =
                         Append(@, [arg |-> "this", classifier |-> w1.classifier])], cb.s)

\* ------------------------------------------------------------ actions
\* One action per job of the event loop: a call by the user, the settling of
\* the pipeline or of an inference call together with the code that awaited
\* it, the .then reaction of a loop, a timer.  Each runs to completion; the
\* user's calls may come between any two of them (from a task or from a
\* microtask queued earlier), so a call between the end of classify and the
\* loop's .then reaction is possible.
\* The state the constructor leaves.
Init ==
  /\ classifier = FALSE
  /\ needToStop = FALSE
  /\ isClassifying = FALSE
  /\ options \in Constructions
  /\ topK = initTopK(options)
  /\ \E gpu \in BOOLEAN : device = initDevice(options, gpu)
  /\ ready = "pending"
  /\ onReadyCalls = <<>>
  /\ calls = <<>>
  /\ loops = <<>>
  /\ stopMark = 0
  /\ loadTransformers = FALSE
  /\ head = <<>>
  /\ globals = {}
  /\ loads = <<>>
  /\ now = 0

\* pipeline(...) resolves and the constructor's .then runs.
PipelineResolves ==
  /\ ready = "pending"
  /\ Set(onResolved(W, options.callback))
  /\ ready' = "resolved"
  /\ UNCHANGED options

\* pipeline(...) rejects: this.ready rejects, nothing else runs.
PipelineRejects ==
  /\ ready = "pending"
  /\ ready' = "rejected"
  /\ UNCHANGED <<classifier, needToStop, isClassifying, topK, device, options,
                 onReadyCalls, calls, loops, stopMark>>

Classify(args) ==
  /\ Len(calls) < MaxCalls
  /\ Set(classify(W, args, "user", 0))
  /\ UNCHANGED <<ready, options>>

ClassifyStart(args) ==
  /\ Len(calls) < MaxCalls
  /\ Set(classifyStart(W, args))
  /\ UNCHANGED <<ready, options>>

ClassifyStop ==
  /\ Set(classifyStop(W))
  /\ UNCHANGED <<ready, options>>

InferenceResolves(id, results) ==
  /\ calls[id].state = "inflight"
  /\ Set(resume(W, id, results))
  /\ UNCHANGED <<ready, options>>

InferenceRejects(id) ==
  /\ calls[id].state = "inflight"
  /\ Set(fail(W, id))
  /\ UNCHANGED <<ready, options>>

\* The .then reaction of a loop whose classify promise resolved.
LoopThen(lp) ==
  /\ loops[lp].pc = "then"
  /\ (device = "webgpu" /\ ~needToStop) =>
       Len(calls) < MaxCalls + (IF calls[loops[lp].call].state = "undefined"
                                THEN MaxSpin ELSE 0)
  /\ Set(thenReaction(W, lp))
  /\ UNCHANGED <<ready, options>>

\* The timer set by setTimeout(next, 1000) fires.
TimerFires(lp) ==
  /\ loops[lp].pc = "timer"
  /\ ~needToStop => Len(calls) < MaxCalls
  /\ Set(next(W, lp))
  /\ UNCHANGED <<ready, options>>

Next ==
  /\ \/ PipelineResolves
     \/ PipelineRejects
     \/ \E args \in UserArgs : Classify(args)
     \/ \E args \in StartArgs : ClassifyStart(args)
     \/ ClassifyStop
     \/ \E id \in 1..Len(calls), results \in Outputs : InferenceResolves(id, results)
     \/ \E id \in 1..Len(calls) : InferenceRejects(id)
     \/ \E lp \in 1..Len(loops) : LoopThen(lp)
     \/ \E lp \in 1..Len(loops) : TimerFires(lp)
  /\ UNCHANGED loaderVars

Spec == Init /\ [][Next]_vars

\* ------------------------------------------------------------ the loader
\* loadTransformersFromCDN and the page it works on: window.loadTransformers,
\* the marked script elements of document.head, the resolve and reject
\* functions parked on window under a name made of Date.now().
Page == [loadTransformers |-> loadTransformers, head |-> head,
         globals |-> globals, loads |-> loads, now |-> now]

SetPage(p) ==
  /\ loadTransformers' = p.loadTransformers
  /\ head' = p.head
  /\ globals' = p.globals
  /\ loads' = p.loads
  /\ now' = p.now

ScriptExistsError == "Transformers loader script exists but function not available"
InjectError == "Failed to inject transformers loader script"

\* One call: what it found (the function, the marked scripts), the state of
\* the promise it returned, the error it rejected with, the script it appended.
NewLoad(p) ==
  [fnBefore |-> p.loadTransformers, scriptsBefore |-> Len(p.head),
   state |-> "pending", error |-> "", script |-> 0]

\* document.querySelector('script[data-transformers-loader="true"]')
existingScript(p) == Len(p.head) > 0

\* The Promise executor: create the script, park resolve and reject on window
\* under promiseId, set the inline code and onerror, append to document.head.
inject(p) ==
  LET id == Len(p.loads) + 1
      promiseId == p.now
  IN [p EXCEPT !.head = Append(@, [promiseId |-> promiseId, load |-> id,
                                   state |-> "appended"]),
               !.globals = {g \in @ : g[1] # promiseId} \cup {<<promiseId, id>>},
               !.loads = Append(@, [NewLoad(p) EXCEPT !.script = Len(p.head) + 1])]

\* The loader without its test for a script already in the document.
loadWithoutScriptTest(p) ==
  IF p.loadTransformers
  THEN [p EXCEPT !.loads = Append(@, [NewLoad(p) EXCEPT !.state = "resolved"])]
  ELSE inject(p)

\* export async function loadTransformersFromCDN()
loadTransformersFromCDN(p) ==
  IF p.loadTransformers
  THEN [p EXCEPT !.loads = Append(@, [NewLoad(p) EXCEPT !.state = "resolved"])]
  ELSE IF existingScript(p)
       THEN [p EXCEPT !.loads = Append(@, [NewLoad(p) EXCEPT
                          !.state = "rejected", !.error = ScriptExistsError])]
       ELSE inject(p)

\* A promise settles once: resolve and reject on a settled promise do nothing.
SettleLoad(p, id, state, error) ==
  IF p.loads[id].state # "pending" THEN p
  ELSE [p EXCEPT !.loads[id].state = state, !.loads[id].error = error]

\* The inline code of script k runs: it defines window.loadTransformers, calls
\* the resolve parked under its promiseId and deletes both functions; if they
\* are gone, the call throws and so does the catch block's.
runScript(p, k) ==
  LET pid == p.head[k].promiseId
      parked == {g \in p.globals : g[1] = pid}
      p1 == [p EXCEPT !.loadTransformers = TRUE, !.head[k].state = "ran"]
  IN IF parked = {} THEN p1
     ELSE LET g == CHOOSE x \in parked : TRUE
          IN [SettleLoad(p1, g[2], "resolved", "") EXCEPT !.globals = @ \ parked]

\* script.onerror of script k: reject the call's promise, delete the functions.
onerror(p, k) ==
  LET pid == p.head[k].promiseId
      p1 == [p EXCEPT !.head[k].state = "error"]
  IN [SettleLoad(p1, p.head[k].load, "rejected", InjectError)
        EXCEPT !.globals = {g \in @ : g[1] # pid}]

\* A call of loadTransformersFromCDN, up to the promise it returns.
Load ==
  /\ Len(loads) < MaxLoads
  /\ SetPage(loadTransformersFromCDN(Page))

\* The browser runs an appended module script, some time after the append.
ScriptRuns(k) ==
  /\ head[k].state = "appended"
  /\ SetPage(runScript(Page, k))

\* The browser fails to run an appended script and fires its error event.
ScriptFails(k) ==
  /\ head[k].state = "appended"
  /\ SetPage(onerror(Page, k))

\* Time passes.
Tick ==
  /\ now < MaxTime
  /\ now' = now + 1
  /\ UNCHANGED <<loadTransformers, head, globals, loads>>

LoaderNext ==
  /\ \/ Load
     \/ \E k \in 1..Len(head) : ScriptRuns(k)
     \/ \E k \in 1..Len(head) : ScriptFails(k)
     \/ Tick
  /\ UNCHANGED wrapperVars

LoaderSpec == Init /\ [][LoaderNext]_vars

\* ------------------------------------------------------------ claims
CallIds == 1..Len(calls)
LoopIds == 1..Len(loops)
InFlight == InFlightIn(calls)

\* A call that the guard had to drop: the busy flag was set or the callable
\* was not stored when it arrived.
Guarded(c) == c.busyBefore \/ ~c.resolvedBefore

\* A call that did nothing: resolved with undefined, no error, no inference
\* call, no callback.
NoOp(c) ==
  /\ c.state = "undefined" /\ c.error = ""
  /\ c.inferCalls = 0 /\ c.cbCount = 0 /\ c.input = UndefV

\* C1: at most one call of the inference callable is in flight at any time,
\* and a classify call that arrives while one is in flight is dropped for
\* good: it resolves with undefined and never reaches the inference callable
\* nor its callback.
C1_SingleFlight ==
  /\ Cardinality(InFlight) <= 1
  /\ \A id \in CallIds : calls[id].inflightBefore > 0 => NoOp(calls[id])

\* A user's classify arrived while an earlier call was in flight, and that
\* earlier call has since resolved.
C1_Witness ==
  \E i, j \in CallIds :
    /\ i < j
    /\ calls[j].origin = "user" /\ calls[j].inflightBefore = 1
    /\ calls[i].state = "resolved"

\* C2: a classify call made while the callable is not stored or while the busy
\* flag is set resolves with undefined, raises nothing, never calls the
\* inference callable and never invokes its callback; and the step of a user's
\* or a loop's call that is dropped leaves isClassifying, needToStop, topK and
\* device as they were.
C2_DroppedCallFrame ==
  LET n == Len(calls') IN
  (/\ n = Len(calls) + 1
   /\ calls'[n].origin \in {"user", "loop"}
   /\ Guarded(calls'[n]))
  => UNCHANGED <<isClassifying, needToStop, topK, device, classifier>>

C2_GuardedCallIsNoOp ==
  /\ [](\A id \in CallIds : Guarded(calls[id]) => NoOp(calls[id]))
  /\ [][C2_DroppedCallFrame]_vars

\* One call was dropped before the callable was stored, a later one was
\* accepted, a third was dropped while that one was in flight, and the
\* accepted one has resolved since.
C2_Witness ==
  \E i, j, k \in CallIds :
    /\ i < j /\ j < k
    /\ ~calls[i].resolvedBefore /\ NoOp(calls[i])
    /\ calls[j].state = "resolved"
    /\ calls[k].busyBefore /\ calls[k].inflightBefore = 1 /\ NoOp(calls[k])

\* C3: a classify call that finds the wrapper ready and idle and whose
\* arguments hold no image is rejected with the error that names
\* classifyStart, without a call of the inference callable and without a
\* callback.
C3_NoImageRejected ==
  \A id \in CallIds :
    (~Guarded(calls[id]) /\ calls[id].image.kind = "undefined") =>
      /\ calls[id].state = "rejected"
      /\ calls[id].error = NoImageError
      /\ calls[id].inferCalls = 0
      /\ calls[id].cbCount = 0

\* A ready, idle wrapper was given classify(cb): a callback and no image.
C3_Witness ==
  \E id \in CallIds :
    /\ ~Guarded(calls[id])
    /\ calls[id].image.kind = "undefined"
    /\ calls[id].callback.kind = "function"
    /\ calls[id].state = "rejected"

\* C4: the busy flag is set only while a classify call is in progress: when
\* no call awaits the inference callable, the flag is clear and the wrapper
\* accepts the next classify.
C4_BusyOnlyDuringCall == isClassifying => InFlight # {}

\* The calls of the inference callable that loops have made.
LoopInferences(cs) == {i \in 1..Len(cs) : cs[i].origin = "loop" /\ cs[i].inferCalls > 0}

\* classifyStop was last called while a loop iteration's inference was in flight.
StoppedInFlight == stopMark # 0 /\ calls[stopMark].origin = "loop"

\* C5 as stated: the iteration that was in flight when classifyStop was called
\* has, once it is over, delivered exactly one callback.
C5_StoppedIterationDelivers ==
  (StoppedInFlight /\ calls[stopMark].state # "inflight") => calls[stopMark].cbCount = 1

\* The step of classifyStop leaves a call in flight as it is.
C5_StopCancelsNothing ==
  (stopMark' # stopMark /\ stopMark' # 0) =>
    /\ calls' = calls
    /\ calls[stopMark'].state = "inflight"

\* While the stop flag stays set and no classifyStart is accepted, no loop
\* calls the inference callable.
C5_NoInferenceUnderStop ==
  (needToStop /\ Len(loops') = Len(loops)) => LoopInferences(calls') = LoopInferences(calls)

\* C5 (amended): classifyStop called while a loop iteration's inference is in
\* flight cancels nothing; that iteration invokes its callback at most once,
\* and exactly once, with the normalized results, when its inference succeeds;
\* and as long as no classifyStart is accepted the loop makes no further
\* inference call, on either backend.
C5_StopLetsInFlightFinish ==
  /\ [](StoppedInFlight =>
          LET c == calls[stopMark] IN
          /\ c.inferCalls = 1
          /\ c.cbCount <= 1
          /\ (c.state # "inflight" /\ c.error # "InferenceError" /\ c.callback.kind = "function")
               => (c.cbCount = 1 /\ Len(c.delivered) = Len(c.out)))
  /\ [][C5_StopCancelsNothing /\ C5_NoInferenceUnderStop]_vars

\* On wasm, classifyStop came while a loop's inference was in flight; the
\* inference resolved, its callback ran once, the timer fired and the loop
\* halted.
C5_Witness ==
  /\ StoppedInFlight
  /\ device = "wasm"
  /\ needToStop
  /\ calls[stopMark].state = "resolved" /\ calls[stopMark].cbCount = 1
  /\ loops[calls[stopMark].loop].pc = "halted"

\* C6: only the stop flag ends a loop: a loop whose iteration has ended keeps
\* a continuation (its .then reaction, a timer or the next classify call)
\* unless it found the stop flag set.
C6_OnlyStopEndsLoop == \A lp \in LoopIds : loops[lp].pc # "broken"

\* C7: the top_k handed to the inference callable is the call's numeric
\* override when there is one, else options.topK, else 3 when options.topK is
\* absent.
C7_EffectiveTopK ==
  \A id \in CallIds : calls[id].inferCalls > 0 =>
    calls[id].top_k =
      IF calls[id].number.kind = "number" THEN calls[id].number.n
      ELSE IF options.topK.kind = "undefined" THEN DefaultTopK
      ELSE options.topK.n

\* C8: what the inference callable is handed is never a video: a video is
\* replaced by the canvas drawn at that very call, any other image is handed
\* on as it is.
C8_NoLiveVideo ==
  \A id \in CallIds : calls[id].inferCalls > 0 =>
    /\ ~isVideo(calls[id].input)
    /\ isVideo(calls[id].image) => calls[id].input = CanvasV(id)
    /\ ~isVideo(calls[id].image) => calls[id].input = calls[id].image

\* Two iterations of one loop over a video, each with its own snapshot, and a
\* call on a static image.
C8_Witness ==
  \E i, j, k \in CallIds :
    /\ i < j
    /\ calls[i].origin = "loop" /\ calls[j].origin = "loop"
    /\ calls[i].loop = calls[j].loop
    /\ isVideo(calls[i].image) /\ isVideo(calls[j].image)
    /\ calls[i].input = CanvasV(i) /\ calls[j].input = CanvasV(j)
    /\ calls[k].inferCalls = 1 /\ calls[k].input = ImgV("img")

\* C9: an accepted classify call whose inference succeeded resolves with the
\* sequence it delivered, exactly once, to its callback: one {label,
\* confidence} entry per entry of the inference output, in its order, the
\* confidence being the entry's score.
C9_DualDelivery ==
  \A id \in CallIds : (calls[id].inferCalls > 0 /\ calls[id].out # <<>>) =>
    /\ calls[id].state = "resolved"
    /\ calls[id].cbCount = 1
    /\ calls[id].value = calls[id].delivered
    /\ Len(calls[id].delivered) = Len(calls[id].out)
    /\ \A i \in 1..Len(calls[id].out) :
         calls[id].delivered[i] =
           [label |-> calls[id].out[i].label, confidence |-> calls[id].out[i].score]

\* C10: the onReady callback runs at most once, never before the pipeline has
\* resolved and exactly once when it has, with the wrapper as its argument and
\* the callable already stored; a classify or classifyStart it issues is
\* accepted, and while the pipeline has not resolved every call is a no-op and
\* no loop exists.
C10_OnReadyOnceAfterResolution ==
  /\ Len(onReadyCalls) <= 1
  /\ (ready = "resolved" /\ options.callback.kind = "function") => Len(onReadyCalls) = 1
  /\ \A i \in 1..Len(onReadyCalls) :
       onReadyCalls[i].arg = "this" /\ onReadyCalls[i].classifier
  /\ ready # "resolved" =>
       /\ onReadyCalls = <<>>
       /\ loops = <<>>
       /\ \A id \in CallIds : NoOp(calls[id])
  /\ \A id \in CallIds : calls[id].origin = "onReady" =>
       ~Guarded(calls[id]) /\ calls[id].inferCalls = 1
  /\ (ready = "resolved" /\ options.callback.s = "start") =>
       \E id \in CallIds :
         /\ calls[id].origin = "loop" /\ calls[id].loop = 1
         /\ ~Guarded(calls[id]) /\ calls[id].inferCalls = 1
         /\ \A j \in 1..(id - 1) : ~calls[j].resolvedBefore

\* A classify issued before resolution was dropped; the one onReady issued
\* was accepted and has resolved.
C10_Witness ==
  /\ ready = "resolved"
  /\ Len(onReadyCalls) = 1
  /\ \E i, j \in CallIds :
       /\ i < j
       /\ ~calls[i].resolvedBefore /\ NoOp(calls[i])
       /\ calls[j].origin = "onReady" /\ calls[j].state = "resolved"

\* C11: once the pipeline has rejected, the wrapper stays as the constructor
\* left it: the readiness promise stays rejected, the callable is never
\* stored, onReady never runs, no loop is created, and every classify call,
\* those made after the rejection too, is a no-op that reaches no inference.
C11_RejectedIsInert ==
  ready = "rejected" =>
    /\ ~classifier /\ ~isClassifying
    /\ onReadyCalls = <<>>
    /\ loops = <<>>
    /\ \A id \in CallIds : NoOp(calls[id])

C11_StaysRejected == ready = "rejected" => ready' = "rejected"

C11_FailedLoadIsPermanent == []C11_RejectedIsInert /\ [][C11_StaysRejected]_vars

\* The pipeline rejected and a classify was called after that, the stop flag
\* being clear.
C11_Witness ==
  /\ ready = "rejected"
  /\ ~needToStop
  /\ \E id \in CallIds : calls[id].readyBefore = "rejected" /\ calls[id].origin = "user"

\* C12: an accepted classify calls the inference callable once and never
\* again; when that call rejects (the call is rejected having received no
\* results), classify's promise is rejected with the inference error and the
\* callback has not been invoked.
InferenceFailed(c) == c.state = "rejected" /\ c.inferCalls > 0 /\ c.out = <<>>

C12_InferenceFailurePropagates ==
  \A id \in CallIds :
    /\ calls[id].inferCalls <= 1
    /\ InferenceFailed(calls[id]) =>
         /\ calls[id].error = "InferenceError"
         /\ calls[id].inferCalls = 1
         /\ calls[id].cbCount = 0
         /\ calls[id].delivered = <<>>
         /\ calls[id].value = <<>>

\* An accepted call with a callback whose inference call rejected.
C12_Witness ==
  \E id \in CallIds :
    /\ InferenceFailed(calls[id])
    /\ calls[id].callback.kind = "function"
    /\ ~Guarded(calls[id])

\* C13 (as stated): the stop flag is consulted when an iteration completes,
\* before anything is scheduled: an iteration that completes with the stop
\* flag set (classifyStop came while it was in flight and nothing cleared the
\* flag since) leaves its .then reaction to run, or a halted loop, but never
\* a timer or a further classify.
C13_StopReadAtCompletion ==
  \A lp \in LoopIds :
    (/\ StoppedInFlight /\ needToStop
     /\ loops[lp].call = stopMark
     /\ calls[stopMark].state = "resolved")
    => loops[lp].pc \in {"then", "halted"}

\* The loop lp calls classify in this step.
LoopCalled(lp) ==
  \E k \in (Len(calls) + 1)..Len(calls') :
    calls'[k].origin = "loop" /\ calls'[k].loop = lp

\* C13 (amended): the stop flag is consulted at the start of each iteration,
\* in next, before classify is called.  A loop calls classify only with the
\* flag clear and halts only on finding it set.  On wasm the .then reaction
\* schedules the timer whatever the flag, and the flag is read when the timer
\* fires; on webgpu the reaction runs next at once.  A loop that reads the
\* flag set halts, calling nothing and scheduling nothing.
C13_StopReadAtIterationStartStep ==
  \A lp \in LoopIds :
    /\ LoopCalled(lp) => ~needToStop
    /\ (loops[lp].pc # "halted" /\ loops'[lp].pc = "halted") => needToStop
    /\ (loops[lp].pc = "then" /\ loops'[lp] # loops[lp] /\ device = "wasm")
         => loops'[lp].pc = "timer" /\ calls' = calls
    /\ (/\ needToStop /\ loops'[lp] # loops[lp]
        /\ \/ loops[lp].pc = "then" /\ device = "webgpu"
           \/ loops[lp].pc = "timer")
         => loops'[lp].pc = "halted" /\ calls' = calls

C13_StopReadAtIterationStart == [][C13_StopReadAtIterationStartStep]_vars

\* On wasm, classifyStop came while an iteration was in flight, the iteration
\* completed, its timer was scheduled and fired, and the loop halted there.
C13_Witness ==
  \E lp \in LoopIds :
    /\ device = "wasm"
    /\ StoppedInFlight /\ needToStop
    /\ loops[lp].call = stopMark
    /\ calls[stopMark].state = "resolved"
    /\ loops[lp].pc = "halted"

\* C14: between the completion of an iteration and the loop's next classify
\* there is exactly one timer on wasm and none on webgpu.  On wasm the .then
\* reaction only schedules the timer, a timer is scheduled by nothing else,
\* and the loop calls classify only when its timer fires; on webgpu no timer
\* is ever pending and the loop calls classify in the .then reaction itself.
C14_TimerBetweenIterationsStep ==
  \A lp \in LoopIds :
    /\ LoopCalled(lp) =>
         loops[lp].pc = (IF device = "wasm" THEN "timer" ELSE "then")
    /\ (loops[lp].pc # "timer" /\ loops'[lp].pc = "timer") =>
         device = "wasm" /\ loops[lp].pc = "then" /\ calls' = calls
    /\ (loops[lp].pc = "then" /\ loops'[lp] # loops[lp]) =>
         IF device = "wasm" THEN loops'[lp].pc = "timer"
         ELSE needToStop \/ LoopCalled(lp)
    /\ (loops[lp].pc = "timer" /\ loops'[lp] # loops[lp]) =>
         needToStop \/ LoopCalled(lp)

C14_NoTimerOnWebgpu ==
  device = "webgpu" => \A lp \in LoopIds : loops[lp].pc # "timer"

C14_TimerBetweenIterations ==
  []C14_NoTimerOnWebgpu /\ [][C14_TimerBetweenIterationsStep]_vars

\* A wasm loop in its second iteration, the first one completed.
C14_Witness ==
  \E lp \in LoopIds : \E i, j \in CallIds :
    /\ device = "wasm"
    /\ i < j
    /\ calls[i].origin = "loop" /\ calls[i].loop = lp /\ calls[i].state = "resolved"
    /\ calls[j].origin = "loop" /\ calls[j].loop = lp /\ calls[j].state = "inflight"

\* C15: classifyStart is guarded as classify is.  No loop exists before the
\* callable is stored, and every loop was started by an accepted classifyStart
\* (its first classify found the wrapper idle and ready).  The stop flag is
\* cleared only by a step that starts a loop, and never while a call stays in
\* flight: classifyStop followed by classifyStart during an iteration leaves
\* the flag set, no loop started and no inference called.
FirstCall(lp) ==
  CHOOSE i \in CallIds :
    /\ calls[i].origin = "loop" /\ calls[i].loop = lp
    /\ \A j \in CallIds : (calls[j].origin = "loop" /\ calls[j].loop = lp) => i <= j

C15_LoopsStartAccepted ==
  /\ ~classifier => loops = <<>>
  /\ \A lp \in LoopIds : ~Guarded(calls[FirstCall(lp)])

C15_DroppedStartStep ==
  /\ (needToStop /\ ~needToStop') => Len(loops') = Len(loops) + 1
  /\ (InFlight # {} /\ InFlight \subseteq {i \in 1..Len(calls') : calls'[i].state = "inflight"}) =>
       /\ needToStop => needToStop'
       /\ Len(loops') = Len(loops)
       /\ \A k \in (Len(calls) + 1)..Len(calls') : calls'[k].inferCalls = 0

C15_StartGuardedAsClassify == []C15_LoopsStartAccepted /\ [][C15_DroppedStartStep]_vars

\* classifyStop came while a call was in flight, the call's callback then
\* called classify and classifyStart while the busy flag was set, and the
\* stop flag is still set with no loop started.
C15_Witness ==
  \E i, j \in CallIds :
    /\ i < j
    /\ stopMark = i /\ needToStop
    /\ calls[i].callback.s = "reenter" /\ calls[i].state = "resolved"
    /\ calls[j].origin = "callback"
    /\ loops = <<>>

\* C16: at most one loop of a wrapper is live at any time, a live loop being
\* one with a continuation pending: a classify it issued awaited, a .then
\* reaction queued, or a timer scheduled.
LiveLoops == {lp \in LoopIds : loops[lp].pc \in {"await", "then", "timer"}}

C16_AtMostOneLoop == Cardinality(LiveLoops) <= 1

\* C17: between two consecutive classify calls of a loop there is a
\* suspension point: the first of the two awaited its inference call, or a
\* timer ran between them.  A loop's classify dropped by the busy guard awaits
\* nothing, so the loop's next call must then come from a timer.
SameLoop(i, j) ==
  /\ calls[i].origin = "loop" /\ calls[j].origin = "loop"
  /\ calls[i].loop = calls[j].loop

Consecutive(i, j) ==
  /\ i < j /\ SameLoop(i, j)
  /\ \A k \in CallIds : (i < k /\ k < j) => ~SameLoop(i, k)

C17_SuspensionBetweenCalls ==
  \A i, j \in CallIds :
    Consecutive(i, j) => (calls[i].inferCalls > 0 \/ device = "wasm")

\* C18: the callback of a classify call runs with the busy flag set, and the
\* flag is cleared after it returns.  A classify or classifyStart issued from
\* inside the callback finds the flag set and is a no-op: the step that
\* delivers a result starts no loop and no inference and ends with the flag
\* clear.  A classifyStop issued from a loop iteration's callback is in force
\* when the iteration completes: while the flag stays set the loop's next
\* move is a timer or a halt, never a classify.
C18_CallsFromCallbackDropped ==
  \A id \in CallIds :
    calls[id].origin = "callback" => calls[id].busyBefore /\ NoOp(calls[id])

C18_DeliveryStep ==
  \A id \in CallIds :
    (calls[id].state = "inflight" /\ calls'[id].state = "resolved") =>
      /\ calls'[id].cbCount = 1
      /\ ~isClassifying'
      /\ Len(loops') = Len(loops)
      /\ \A k \in (Len(calls) + 1)..Len(calls') :
           calls'[k].origin = "callback" /\ NoOp(calls'[k])
      /\ calls[id].callback.s = "stop" => needToStop'

StoppedByCallback(lp) ==
  /\ loops[lp].call \in CallIds
  /\ calls[loops[lp].call].callback.s = "stop"
  /\ calls[loops[lp].call].state = "resolved"
  /\ needToStop

C18_StopFromCallbackStep ==
  \A lp \in LoopIds :
    (StoppedByCallback(lp) /\ loops'[lp] # loops[lp]) =>
      /\ ~LoopCalled(lp)
      /\ loops'[lp].pc \in {"timer", "halted"}

LoadIds == 1..Len(loads)

C19_AtMostOneScript ==
  /\ Len(head) <= 1
  /\ \A id \in LoadIds :
       /\ loads[id].fnBefore =>
            loads[id].state = "resolved" /\ loads[id].script = 0
       /\ (~loads[id].fnBefore /\ loads[id].scriptsBefore > 0) =>
            /\ loads[id].state = "rejected"
            /\ loads[id].error = ScriptExistsError
            /\ loads[id].script = 0

C19_RefusedLoadStep ==
  (Len(loads') > Len(loads) /\ (loadTransformers \/ head # <<>>)) =>
    UNCHANGED <<loadTransformers, head, globals>>

C19_SingleInjection == []C19_AtMostOneScript /\ [][C19_RefusedLoadStep]_vars

\* One call appended the script, a second one made before the script ran was
\* rejected, and a third one made after it ran resolved.
C19_Witness ==
  \E a, b, c \in LoadIds :
    /\ loads[a].script = 1 /\ loads[a].state = "resolved"
    /\ ~loads[b].fnBefore /\ loads[b].scriptsBefore = 1 /\ loads[b].state = "rejected"
    /\ loads[c].fnBefore /\ loads[c].state = "resolved"
    /\ Len(head) = 1

====
